---- MODULE Spec2Model ----
(***************************************************************************)
(* pykerning: the fpdf2 writer (pykerning/writer_fpdf.py).                 *)
(*                                                                         *)
(* FpdfFont is a font handle (family, style, size and derived metrics)     *)
(* that measures text through a shared FPDF backend; FpdfWriter owns the   *)
(* backend, loads font files, resolves font specifications to handles,     *)
(* switches the current font, adds pages and draws text.                   *)
(*                                                                         *)
(* Strings the code inspects (paths, stems, style names, family names,     *)
(* style codes) are sequences of one-character strings, so that endswith,  *)
(* substring search, lower-casing and path splitting are computed.  Keys   *)
(* the code only stores and compares (logical font names) are strings.     *)
(* Font metrics are kept in tenths of a point, so that the ratios 0.8 and  *)
(* 0.2 are the integers 8 and 2 over RATIO_DEN = 10.                       *)
(***************************************************************************)
EXTENDS Integers, Sequences, FiniteSets, TLC

VARIABLES pdf, loaded_fonts, fonts, current_font, handles,
          last, new_page_calls, last_set

vars == <<pdf, loaded_fonts, fonts, current_font, handles,
          last, new_page_calls, last_set>>

(***************************************************************************)
(* Bounds of the model.                                                    *)
(***************************************************************************)
MaxPages == 3
MaxSpecs == 2

(***************************************************************************)
(* Module constants of writer_fpdf.py.                                     *)
(***************************************************************************)
RATIO_DEN == 10
FONT_ASCENT_RATIO == 8
FONT_DESCENT_RATIO == 2
FONT_LEADING_RATIO == 2

DEFAULT_FONT_FAMILY == <<"G","e","n","t","i","u","m","B","a","s","i","c">>

STYLE_REGULAR == <<>>
STYLE_ITALIC == <<"I">>
STYLE_BOLD == <<"B">>
STYLE_BOLD_ITALIC == <<"B","I">>

None == "None"

(***************************************************************************)
(* Python string operations used by the code.                              *)
(***************************************************************************)
UPPER == <<"A","B","C","D","E","F","G","H","I","J","K","L","M",
           "N","O","P","Q","R","S","T","U","V","W","X","Y","Z">>
LOWER == <<"a","b","c","d","e","f","g","h","i","j","k","l","m",
           "n","o","p","q","r","s","t","u","v","w","x","y","z">>

lower_char(c) ==
    IF \E i \in 1..Len(UPPER) : UPPER[i] = c
    THEN LOWER[CHOOSE i \in 1..Len(UPPER) : UPPER[i] = c]
    ELSE c

upper_char(c) ==
    IF \E i \in 1..Len(LOWER) : LOWER[i] = c
    THEN UPPER[CHOOSE i \in 1..Len(LOWER) : LOWER[i] = c]
    ELSE c

str_lower(s) == [i \in 1..Len(s) |-> lower_char(s[i])]
str_upper(s) == [i \in 1..Len(s) |-> upper_char(s[i])]

\* str.endswith(suffix)
endswith(s, suffix) ==
    /\ Len(suffix) <= Len(s)
    /\ SubSeq(s, Len(s) - Len(suffix) + 1, Len(s)) = suffix

\* `sub in s` for strings
contains(s, sub) ==
    \E i \in 0..(Len(s) - Len(sub)) : SubSeq(s, i + 1, i + Len(sub)) = sub

\* the order of the upper-case letters, for sorted()
char_rank(c) ==
    IF \E i \in 1..Len(UPPER) : UPPER[i] = c
    THEN CHOOSE i \in 1..Len(UPPER) : UPPER[i] = c
    ELSE 0

RECURSIVE insert_sorted(_, _)
insert_sorted(c, s) ==
    IF s = <<>> THEN <<c>>
    ELSE IF char_rank(c) <= char_rank(Head(s)) THEN <<c>> \o s
    ELSE <<Head(s)>> \o insert_sorted(c, Tail(s))

RECURSIVE sorted_chars(_)
sorted_chars(s) ==
    IF s = <<>> THEN <<>> ELSE insert_sorted(Head(s), sorted_chars(Tail(s)))

(***************************************************************************)
(* pathlib.Path on relative POSIX paths: Path(path) is the sequence of the *)
(* path's components, empty and "." components dropped; str() joins them   *)
(* with "/"; .stem is the last component without its last suffix.          *)
(***************************************************************************)
RECURSIVE split_slash(_, _)
split_slash(s, cur) ==
    IF s = <<>> THEN <<cur>>
    ELSE IF Head(s) = "/" THEN <<cur>> \o split_slash(Tail(s), <<>>)
    ELSE split_slash(Tail(s), Append(cur, Head(s)))

Path(path) == SelectSeq(split_slash(path, <<>>), LAMBDA c : c # <<>> /\ c # <<".">>)

RECURSIVE join_slash(_)
join_slash(parts) ==
    IF parts = <<>> THEN <<>>
    ELSE IF Len(parts) = 1 THEN parts[1]
    ELSE parts[1] \o <<"/">> \o join_slash(Tail(parts))

Path_str(path_obj) == IF path_obj = <<>> THEN <<".">> ELSE join_slash(path_obj)

Path_name(path_obj) == IF path_obj = <<>> THEN <<>> ELSE path_obj[Len(path_obj)]

\* name.rfind('.'), counted from 0; -1 when there is no dot
rfind_dot(name) ==
    IF \E i \in 1..Len(name) : name[i] = "."
    THEN (CHOOSE i \in 1..Len(name) :
              /\ name[i] = "."
              /\ \A j \in (i + 1)..Len(name) : name[j] # ".") - 1
    ELSE -1

Path_stem(path_obj) ==
    LET name == Path_name(path_obj)
        i == rfind_dot(name)
    IN  IF 0 < i /\ i < Len(name) - 1 THEN SubSeq(name, 1, i) ELSE name

(***************************************************************************)
(* The file system the session runs against: the font files that exist,    *)
(* by their str(Path(...)), and whether each holds a font the backend can  *)
(* parse.                                                                  *)
(***************************************************************************)
P_GenBasR == <<"f","o","n","t","s","/","G","e","n","B","a","s","R",".","t","t","f">>
P_GenBasI == <<"f","o","n","t","s","/","G","e","n","B","a","s","I",".","t","t","f">>
P_GenBasB == <<"f","o","n","t","s","/","G","e","n","B","a","s","B",".","t","t","f">>
P_GenBasBI == <<"f","o","n","t","s","/","G","e","n","B","a","s","B","I",".","t","t","f">>
P_GenBasIB == <<"f","o","n","t","s","/","G","e","n","B","a","s","I","B",".","t","t","f">>
P_GenBasR_raw == <<".","/","f","o","n","t","s","/","/","G","e","n","B","a","s","R",".","t","t","f">>
P_gentiumi == <<"f","o","n","t","s","/","g","e","n","t","i","u","m","i",".","t","t","f">>
P_BrokenR == <<"f","o","n","t","s","/","B","r","o","k","e","n","R",".","t","t","f">>
P_BrokenB == <<"f","o","n","t","s","/","B","r","o","k","e","n","B",".","t","t","f">>
P_nonexistent == <<"n","o","n","e","x","i","s","t","e","n","t","_","f","o","n","t",".","t","t","f">>

FontFiles == {P_GenBasR, P_GenBasI, P_GenBasB, P_GenBasBI, P_GenBasIB, P_gentiumi}
BrokenFiles == {P_BrokenR, P_BrokenB}

\* Path.exists()
Path_exists(path_obj) == Path_str(path_obj) \in FontFiles \cup BrokenFiles

(***************************************************************************)
(* The fpdf2 backend, as far as the writer drives it: the selected font    *)
(* (font_family, font_style, font_size_pt; font_family is "" until a font  *)
(* is set), the fonts registered by key family.lower() + style, and the    *)
(* page counter.                                                           *)
(***************************************************************************)
helvetica == <<"h","e","l","v","e","t","i","c","a">>
times == <<"t","i","m","e","s">>
courier == <<"c","o","u","r","i","e","r">>

CORE_FONTS ==
    {f \o s : f \in {helvetica, times, courier},
              s \in {STYLE_REGULAR, STYLE_BOLD, STYLE_BOLD_ITALIC, STYLE_ITALIC}}

\* FPDF(unit='pt', format=(width_pt, height_pt))
FPDF ==
    [font_family |-> <<>>, font_style |-> <<>>, font_size_pt |-> 12,
     fonts |-> {}, page |-> 0, auto_page_break |-> TRUE]

Pdf_set_auto_page_break(p, auto) == [p EXCEPT !.auto_page_break = auto]

\* add_page starts a page and re-selects the font that was selected
Pdf_add_page(p) == [p EXCEPT !.page = @ + 1]

Pdf_fontkey(family, style) == str_lower(family) \o sorted_chars(str_upper(style))

\* set_font(family, style, size): fails, changing nothing, on a font that is
\* neither registered nor a core font
Pdf_set_font(p, family, style, size) ==
    LET fam == str_lower(family)
        sty == sorted_chars(str_upper(style))
        fontkey == fam \o sty
    IN  IF p.font_family = fam /\ p.font_style = sty /\ p.font_size_pt = size
        THEN [exc |-> None, pdf |-> p]
        ELSE IF fontkey \notin p.fonts /\ fontkey \notin CORE_FONTS
        THEN [exc |-> "FPDFException", pdf |-> p]
        ELSE [exc |-> None,
              pdf |-> [p EXCEPT !.font_family = fam,
                                !.font_style = sty,
                                !.font_size_pt = size,
                                !.fonts = @ \cup {fontkey}]]

\* add_font(family, style, fname): a key already registered is left alone
\* (a warning); otherwise the file is parsed, which fails on a broken file
Pdf_add_font(p, family, style, fname) ==
    LET fontkey == Pdf_fontkey(family, style)
    IN  IF fname \notin FontFiles \cup BrokenFiles
        THEN [exc |-> "FileNotFoundError", pdf |-> p]
        ELSE IF fontkey \in p.fonts \/ fontkey \in CORE_FONTS
        THEN [exc |-> None, pdf |-> p]
        ELSE IF fname \in BrokenFiles
        THEN [exc |-> "TTLibError", pdf |-> p]
        ELSE [exc |-> None, pdf |-> [p EXCEPT !.fonts = @ \cup {fontkey}]]

\* get_string_width(text): the backend's measurement under the selected
\* font, here one glyph advance per character and point of size
Pdf_get_string_width(p, text) == Len(text) * p.font_size_pt

\* text(x, y, text): needs a selected font; never starts a page
Pdf_text(p, x, y, text) ==
    IF p.font_family = <<>>
    THEN [exc |-> "FPDFException", pdf |-> p]
    ELSE [exc |-> None, pdf |-> p]

(***************************************************************************)
(* FpdfFont                                                                *)
(***************************************************************************)
PdfRef == "self.pdf"

\* A variant of __init__ that derives the ascent with the descent ratio.
FpdfFont_descent_for_ascent(pdf_ref, font_family, font_style, font_size) ==
    [pdf |-> pdf_ref,
     font_family |-> font_family,
     font_style |-> font_style,
     font_size |-> font_size,
     height |-> font_size * RATIO_DEN,
     ascent |-> font_size * FONT_DESCENT_RATIO,
     descent |-> font_size * FONT_DESCENT_RATIO,
     leading |-> font_size * FONT_LEADING_RATIO]

\* FpdfFont.__init__
FpdfFont(pdf_ref, font_family, font_style, font_size) ==
    [pdf |-> pdf_ref,
     font_family |-> font_family,
     font_style |-> font_style,
     font_size |-> font_size,
     height |-> font_size * RATIO_DEN,
     ascent |-> font_size * FONT_ASCENT_RATIO,
     descent |-> font_size * FONT_DESCENT_RATIO,
     leading |-> font_size * FONT_LEADING_RATIO]

\* A variant of width_of that does not restore the font it found.
FpdfFont_width_of_no_restore(p, self, text) ==
    LET r1 == Pdf_set_font(p, self.font_family, self.font_style, self.font_size)
    IN  IF r1.exc # None THEN [exc |-> r1.exc, pdf |-> r1.pdf, ret |-> None]
        ELSE [exc |-> None, pdf |-> r1.pdf,
              ret |-> Pdf_get_string_width(r1.pdf, text)]

\* FpdfFont.width_of, as a function of the backend p and the handle self:
\* the exception raised (or None), the backend left behind, the width
FpdfFont_width_of(p, self, text) ==
    LET current_family == p.font_family
        current_style == p.font_style
        current_size == p.font_size_pt
        r1 == Pdf_set_font(p, self.font_family, self.font_style, self.font_size)
        width == Pdf_get_string_width(r1.pdf, text)
        r2 == IF current_family # <<>>
              THEN Pdf_set_font(r1.pdf, current_family, current_style, current_size)
              ELSE [exc |-> None, pdf |-> r1.pdf]
    IN  IF r1.exc # None THEN [exc |-> r1.exc, pdf |-> r1.pdf, ret |-> None]
        ELSE IF r2.exc # None THEN [exc |-> r2.exc, pdf |-> r2.pdf, ret |-> None]
        ELSE [exc |-> None, pdf |-> r2.pdf, ret |-> width]

(***************************************************************************)
(* FpdfWriter                                                              *)
(*                                                                         *)
(* handles is the set of FpdfFont objects that exist; an object is the     *)
(* record of its attributes (FpdfFont has no behaviour that tells two      *)
(* objects of equal attributes apart).  A reference that may be None is a  *)
(* sequence: <<>> for None, <<f>> for the object f.  last describes the    *)
(* call made last: the operation, its argument, the exception it raised    *)
(* (or None), the exception's message and the value returned.              *)
(* new_page_calls counts the new_page calls made, last_set refers to the   *)
(* handle passed to the last set_font call that returned.                  *)
(***************************************************************************)
EmptyDict == [k \in {} |-> None]

Call(op, arg, exc, msg, ret) ==
    [op |-> op, arg |-> arg, exc |-> exc, msg |-> msg, ret |-> ret]

\* FpdfWriter.__init__
Init ==
    /\ pdf = Pdf_add_page(Pdf_set_auto_page_break(FPDF, FALSE))
    /\ loaded_fonts = EmptyDict
    /\ fonts = EmptyDict
    /\ current_font = <<>>
    /\ handles = {}
    /\ last = Call("__init__", None, None, None, None)
    /\ new_page_calls = 0
    /\ last_set = <<>>

\* A caller constructs a handle on the session's backend (FpdfFont(...)).
Construct(font_family, font_style, font_size) ==
    /\ \E font \in {FpdfFont(PdfRef, font_family, font_style, font_size)} :
           /\ handles' = handles \cup {font}
           /\ last' = Call("FpdfFont", <<font_family, font_style, font_size>>,
                           None, None, font)
    /\ UNCHANGED <<pdf, loaded_fonts, fonts, current_font, new_page_calls, last_set>>

\* font.width_of(text); the handle's own attributes are only read
width_of(font, text) ==
    /\ font \in handles
    /\ \E r \in {FpdfFont_width_of(pdf, font, text)} :
           /\ pdf' = r.pdf
           /\ last' = Call("width_of", <<font, text>>, r.exc, None, r.ret)
    /\ UNCHANGED <<loaded_fonts, fonts, current_font, handles, new_page_calls, last_set>>

\* A variant of the style derivation with the codes of "I" and "B" swapped.
load_font_style_swapped(filename) ==
    IF endswith(filename, <<"I">>) THEN STYLE_BOLD
    ELSE IF endswith(filename, <<"B">>) THEN STYLE_ITALIC
    ELSE STYLE_REGULAR

\* the style load_font derives from the file name's stem
load_font_style(filename) ==
    IF endswith(filename, <<"I">>) THEN STYLE_ITALIC
    ELSE IF endswith(filename, <<"B">>) THEN STYLE_BOLD
    ELSE IF endswith(filename, <<"B","I">>) \/ endswith(filename, <<"I","B">>)
    THEN STYLE_BOLD_ITALIC
    ELSE STYLE_REGULAR

NotFoundMessage(path) ==
    <<"F","o","n","t"," ","f","i","l","e"," ","n","o","t"," ",
      "f","o","u","n","d",":"," ">> \o path

\* A variant of load_font that records the path before it looks for the
\* file.
load_font_result_record_first(p, loaded, path) ==
    LET path_obj == Path(path)
        style == load_font_style(Path_stem(path_obj))
        recorded == (Path_str(path_obj) :> <<DEFAULT_FONT_FAMILY, style>>) @@ loaded
        r == Pdf_add_font(p, DEFAULT_FONT_FAMILY, style, Path_str(path_obj))
    IN  IF ~Path_exists(path_obj)
        THEN [exc |-> "FileNotFoundError", msg |-> NotFoundMessage(path),
              pdf |-> p, loaded_fonts |-> recorded]
        ELSE [exc |-> r.exc, msg |-> None, pdf |-> r.pdf, loaded_fonts |-> recorded]

\* what load_font does to the backend and to loaded_fonts, and the
\* exception it raises (or None)
load_font_result(p, loaded, path) ==
    LET path_obj == Path(path)
        filename == Path_stem(path_obj)
        style == load_font_style(filename)
        family_name == DEFAULT_FONT_FAMILY
        r == Pdf_add_font(p, family_name, style, Path_str(path_obj))
    IN  IF ~Path_exists(path_obj)
        THEN [exc |-> "FileNotFoundError", msg |-> NotFoundMessage(path),
              pdf |-> p, loaded_fonts |-> loaded]
        ELSE IF r.exc # None
        THEN [exc |-> r.exc, msg |-> None, pdf |-> r.pdf, loaded_fonts |-> loaded]
        ELSE [exc |-> None, msg |-> None, pdf |-> r.pdf,
              loaded_fonts |-> (Path_str(path_obj) :> <<family_name, style>>) @@ loaded]

\* FpdfWriter.load_font(path)
load_font(path) ==
    /\ \E r \in {load_font_result(pdf, loaded_fonts, path)} :
           /\ pdf' = r.pdf
           /\ loaded_fonts' = r.loaded_fonts
           /\ last' = Call("load_font", path, r.exc, r.msg, None)
    /\ UNCHANGED <<fonts, current_font, handles, new_page_calls, last_set>>

\* A variant of the style mapping that looks for "Bold" first.
get_fonts_style_bold_first(style) ==
    IF contains(style, <<"B","o","l","d">>) THEN STYLE_BOLD
    ELSE IF contains(style, <<"I","t","a","l","i","c">>) THEN STYLE_ITALIC
    ELSE STYLE_REGULAR

\* the fpdf2 style code get_fonts derives from a style name
get_fonts_style(style) ==
    IF contains(style, <<"I","t","a","l","i","c">>) THEN STYLE_ITALIC
    ELSE IF contains(style, <<"B","o","l","d">>) THEN STYLE_BOLD
    ELSE STYLE_REGULAR

\* the loop of get_fonts over the specs left, with the local dictionary
\* built so far and the handles constructed so far; unpacking a spec that is
\* not a 4-tuple raises ValueError
RECURSIVE get_fonts_loop(_, _, _)
get_fonts_loop(font_specs, dict, objs) ==
    IF font_specs = <<>> THEN [exc |-> None, fonts |-> dict, objs |-> objs]
    ELSE LET spec == Head(font_specs)
         IN  IF Len(spec) # 4
             THEN [exc |-> "ValueError", fonts |-> dict, objs |-> objs]
             ELSE LET name == spec[1]
                      style == spec[3]
                      size == spec[4]
                      fpdf_family == DEFAULT_FONT_FAMILY
                      fpdf_style == get_fonts_style(style)
                      font == FpdfFont(PdfRef, fpdf_family, fpdf_style, size)
                  IN  get_fonts_loop(Tail(font_specs),
                                     (name :> font) @@ dict,
                                     objs \cup {font})

\* A variant of get_fonts that adds to the stored mapping instead of
\* replacing it.
get_fonts_store_merged(old, r) == IF r.exc = None THEN r.fonts @@ old ELSE old

\* A variant of get_fonts that stores each handle as the loop builds it.
get_fonts_store_in_loop(old, r) == r.fonts @@ old

\* what get_fonts leaves in self.fonts: the assignment follows the loop
get_fonts_store(old, r) == IF r.exc = None THEN r.fonts ELSE old

\* FpdfWriter.get_fonts(font_specs); the handles of a call that raises are
\* dropped with its local dictionary
get_fonts(font_specs) ==
    /\ \E r \in {get_fonts_loop(font_specs, EmptyDict, {})} :
           /\ fonts' = get_fonts_store(fonts, r)
           /\ handles' = IF r.exc = None THEN handles \cup r.objs ELSE handles
           /\ last' = Call("get_fonts", font_specs, r.exc, None,
                           IF r.exc = None THEN r.fonts ELSE EmptyDict)
    /\ UNCHANGED <<pdf, loaded_fonts, current_font, new_page_calls, last_set>>

\* A variant of new_page that adds two pages.
new_page_twice ==
    /\ pdf.page < MaxPages
    /\ pdf' = Pdf_add_page(Pdf_add_page(pdf))
    /\ new_page_calls' = new_page_calls + 1
    /\ last' = Call("new_page", None, None, None, None)
    /\ UNCHANGED <<loaded_fonts, fonts, current_font, handles, last_set>>

\* FpdfWriter.new_page()
new_page ==
    /\ pdf.page < MaxPages
    /\ pdf' = Pdf_add_page(pdf)
    /\ new_page_calls' = new_page_calls + 1
    /\ last' = Call("new_page", None, None, None, None)
    /\ UNCHANGED <<loaded_fonts, fonts, current_font, handles, last_set>>

\* FpdfWriter.set_font(font): current_font is assigned before the backend
\* is asked, and stays assigned when the backend raises
set_font(font) ==
    /\ font \in handles
    /\ \E r \in {Pdf_set_font(pdf, font.font_family, font.font_style, font.font_size)} :
           /\ current_font' = <<font>>
           /\ pdf' = r.pdf
           /\ last_set' = IF r.exc = None THEN <<font>> ELSE last_set
           /\ last' = Call("set_font", font, r.exc, None, None)
    /\ UNCHANGED <<loaded_fonts, fonts, handles, new_page_calls>>

\* FpdfWriter.draw_text(x_pt, y_pt, text)
draw_text(x_pt, y_pt, text) ==
    /\ \E r \in {Pdf_text(pdf, x_pt, y_pt, text)} :
           /\ pdf' = r.pdf
           /\ last' = Call("draw_text", <<x_pt, y_pt, text>>, r.exc, None, None)
    /\ UNCHANGED <<loaded_fonts, fonts, current_font, handles, new_page_calls, last_set>>

(***************************************************************************)
(* The calls a session receives.                                           *)
(***************************************************************************)
Helvetica == <<"H","e","l","v","e","t","i","c","a">>

N_Regular == <<"R","e","g","u","l","a","r">>
N_Italic == <<"I","t","a","l","i","c">>
N_Bold == <<"B","o","l","d">>
N_BoldItalic == <<"B","o","l","d"," ","I","t","a","l","i","c">>
N_ItalicBold == <<"I","t","a","l","i","c"," ","B","o","l","d">>

Sizes == {12, 24}
Texts == {<<>>, <<"H","i">>}
DrawnTexts == {<<"H","i">>}
Coords == {100}
ConstructSizes == {24}

Spec_roman == <<"roman", "Gentium Basic", N_Regular, 12>>
Spec_italic == <<"italic", "Gentium Basic", N_Italic, 12>>
Spec_title == <<"title", "Helvetica", N_Regular, 24>>
Spec_malformed == <<"bold", "Gentium Basic", N_Bold>>

\* every handle a session of the model can hold
AllHandles ==
    {FpdfFont(PdfRef, f, s, z) :
        f \in {Helvetica, DEFAULT_FONT_FAMILY},
        s \in {STYLE_REGULAR, STYLE_ITALIC, STYLE_BOLD},
        z \in Sizes}

SessionPaths == {P_nonexistent, P_GenBasR, P_BrokenB}

SessionSpecLists ==
    {<<Spec_roman, Spec_italic>>, <<Spec_title>>, <<Spec_roman, Spec_malformed>>}

Next ==
    \/ \E z \in ConstructSizes : Construct(Helvetica, STYLE_BOLD, z)
    \/ \E font \in AllHandles, t \in Texts : width_of(font, t)
    \/ \E path \in SessionPaths : load_font(path)
    \/ \E font_specs \in SessionSpecLists : get_fonts(font_specs)
    \/ new_page
    \/ \E font \in AllHandles : set_font(font)
    \/ \E x \in Coords, y \in Coords, t \in DrawnTexts : draw_text(x, y, t)

Spec == Init /\ [][Next]_vars

(***************************************************************************)
(* load_font alone, over every path of the file system above and one that  *)
(* does not exist.                                                         *)
(***************************************************************************)
AllPaths == FontFiles \cup BrokenFiles \cup {P_GenBasR_raw, P_nonexistent}

NextLoad == \E path \in AllPaths : load_font(path)

SpecLoad == Init /\ [][NextLoad]_vars

(***************************************************************************)
(* get_fonts alone, over the lists of at most MaxSpecs specs.              *)
(***************************************************************************)
Spec_bold == <<"bold", "Gentium Basic", N_Bold, 12>>
Spec_bolditalic == <<"bolditalic", "Gentium Basic", N_BoldItalic, 12>>
Spec_italicbold == <<"bolditalic", "Gentium Basic", N_ItalicBold, 12>>

AllSpecs == {Spec_roman, Spec_italic, Spec_title, Spec_bold, Spec_bolditalic,
             Spec_italicbold}

SeqsUpTo(S, n) == UNION {[1..k -> S] : k \in 0..n}

NextResolve == \E font_specs \in SeqsUpTo(AllSpecs, MaxSpecs) : get_fonts(font_specs)

SpecResolve == Init /\ [][NextResolve]_vars

(***************************************************************************)
(* Properties.                                                             *)
(***************************************************************************)
\* the backend's active font
ActiveFont == <<pdf.font_family, pdf.font_style, pdf.font_size_pt>>

\* the active font `triple` is the font of handle f; the backend keeps
\* family names in lower case
IsFontOf(triple, f) ==
    /\ triple[1] = str_lower(f.font_family)
    /\ triple[2] = f.font_style
    /\ triple[3] = f.font_size

\* C1: a width_of call made while the backend has an active font leaves
\* that active font as it found it; hence, once a set_font call has
\* returned, the backend's active font is the font of the handle passed to
\* the last set_font call that returned, whatever width_of calls were made
\* since.
C1_WidthOfKeepsActiveFont ==
    /\ [](last_set # <<>> => IsFontOf(ActiveFont, last_set[1]))
    /\ [][(last'.op = "width_of" /\ pdf.font_family # <<>>)
              => ActiveFont' = ActiveFont]_vars

\* C1 witness: with the font of one handle active, the width of a text was
\* measured by a handle of another family, and the measurement returned.
C1_Witness ==
    /\ last.op = "width_of"
    /\ last.exc = None
    /\ last.arg[2] # <<>>
    /\ last_set # <<>>
    /\ last.arg[1].font_family # last_set[1].font_family
    /\ last.arg[1].font_size # last_set[1].font_size

\* C2: a width_of call made while the backend has no active font leaves
\* the backend with no active font.
C2_WidthOfLeavesFontUnset ==
    [][(last'.op = "width_of" /\ pdf.font_family = <<>>)
           => pdf'.font_family = <<>>]_vars

\* the last character of a string, "" for the empty string
LastChar(str) == IF str = <<>> THEN <<>> ELSE <<str[Len(str)]>>

\* the path of the last load_font call, as the registry's key, and its stem
LastKey == Path_str(Path(last.arg))
LastStem == Path_stem(Path(last.arg))

\* C3: load_font on a path that names no existing file raises
\* FileNotFoundError with a message that holds the path, and leaves the
\* registry loaded_fonts and the backend's registered fonts as they were.
C3_MissingFontFile ==
    [][(last'.op = "load_font"
            /\ Path_str(Path(last'.arg)) \notin FontFiles \cup BrokenFiles)
           => /\ last'.exc = "FileNotFoundError"
              /\ contains(last'.msg, last'.arg)
              /\ loaded_fonts' = loaded_fonts
              /\ pdf'.fonts = pdf.fonts]_vars

\* C3 witness: load_font has raised FileNotFoundError in a session whose
\* registry already held fonts.
C3_Witness ==
    /\ last.op = "load_font"
    /\ last.exc = "FileNotFoundError"
    /\ Cardinality(DOMAIN loaded_fonts) >= 2
    /\ pdf.fonts # {}

\* the style the file-name convention gives a stem: Italic for a last
\* character "I", Bold for "B", Regular for any other
ConventionStyle(stem) ==
    CASE LastChar(stem) = <<"I">> -> STYLE_ITALIC
      [] LastChar(stem) = <<"B">> -> STYLE_BOLD
      [] OTHER -> STYLE_REGULAR

\* C4: after a load_font call that returned, the registry maps the call's
\* path to (GentiumBasic, style) and the backend has a font registered
\* under that family and style, where the style is given by the last
\* character of the stem alone: "I" Italic, "B" Bold, any other Regular;
\* every entry of the registry has the one family GentiumBasic.
C4_LoadFontRegisters ==
    /\ \A k \in DOMAIN loaded_fonts : loaded_fonts[k][1] = DEFAULT_FONT_FAMILY
    /\ (last.op = "load_font" /\ last.exc = None)
           => /\ LastKey \in DOMAIN loaded_fonts
              /\ loaded_fonts[LastKey] =
                     <<DEFAULT_FONT_FAMILY, ConventionStyle(LastStem)>>
              /\ str_lower(DEFAULT_FONT_FAMILY) \o ConventionStyle(LastStem)
                     \in pdf.fonts

\* C4 witness: a Bold font file has just been loaded into a registry that
\* holds a Regular and an Italic one.
C4_Witness ==
    /\ last.op = "load_font"
    /\ last.exc = None
    /\ loaded_fonts[LastKey][2] = STYLE_BOLD
    /\ \E k \in DOMAIN loaded_fonts : loaded_fonts[k][2] = STYLE_REGULAR
    /\ \E k \in DOMAIN loaded_fonts : loaded_fonts[k][2] = STYLE_ITALIC

\* C5: a font file whose stem ends in "BI" or "IB" is registered by
\* load_font with the style BoldItalic.
C5_BoldItalicSuffix ==
    (/\ last.op = "load_font"
     /\ last.exc = None
     /\ (endswith(LastStem, <<"B","I">>) \/ endswith(LastStem, <<"I","B">>)))
        => loaded_fonts[LastKey][2] = STYLE_BOLD_ITALIC

\* the specs of the last get_fonts call, and whether their names differ
LastSpecs == last.arg
DistinctNames(specs) ==
    \A i, j \in 1..Len(specs) : specs[i][1] = specs[j][1] => i = j

\* the style a style name stands for
NamedStyle(style_name) ==
    CASE style_name = N_Regular -> STYLE_REGULAR
      [] style_name = N_Italic -> STYLE_ITALIC
      [] style_name = N_Bold -> STYLE_BOLD

\* C6: after get_fonts has returned for specs of pairwise distinct names,
\* the mapping returned is the mapping stored, it has exactly one entry per
\* spec, under the spec's name, and nothing else; the handle of a spec has
\* the spec's size, the family GentiumBasic whatever family the spec names,
\* the session's backend, and for the style names Regular, Italic and Bold
\* the style of that name; two specs of one style name get one style.
C6_GetFontsMapping ==
    (last.op = "get_fonts" /\ last.exc = None /\ DistinctNames(LastSpecs))
        => /\ fonts = last.ret
           /\ DOMAIN fonts = {LastSpecs[i][1] : i \in 1..Len(LastSpecs)}
           /\ Cardinality(DOMAIN fonts) = Len(LastSpecs)
           /\ \A i \in 1..Len(LastSpecs) :
                  LET spec == LastSpecs[i]
                      font == fonts[spec[1]]
                  IN  /\ font \in handles
                      /\ font.font_size = spec[4]
                      /\ font.height = RATIO_DEN * spec[4]
                      /\ font.font_family = DEFAULT_FONT_FAMILY
                      /\ font.pdf = PdfRef
                      /\ spec[3] \in {N_Regular, N_Italic, N_Bold}
                             => font.font_style = NamedStyle(spec[3])
                      /\ \A j \in 1..Len(LastSpecs) :
                             LastSpecs[j][3] = spec[3]
                                 => fonts[LastSpecs[j][1]].font_style = font.font_style

\* C6 witness: get_fonts has returned for two specs that differ in size
\* only (and in name), in a session that had resolved a Bold font under
\* another name before.
C6_Witness ==
    /\ last.op = "get_fonts"
    /\ last.exc = None
    /\ LastSpecs = <<Spec_roman, Spec_title>>
    /\ \E font \in handles : font.font_style = STYLE_BOLD
    /\ "bold" \notin DOMAIN fonts

\* C7: every handle has height = size, ascent = 0.8 size, descent = 0.2
\* size and leading = 0.2 size (in tenths of a point: 10, 8, 2 and 2 times
\* the size), the handles a session refers to are among them, and no call
\* changes a handle that exists.
C7_MetricsFixed ==
    /\ [](/\ \A font \in handles :
                /\ font.font_size > 0
                /\ font.height = 10 * font.font_size
                /\ font.ascent = 8 * font.font_size
                /\ font.descent = 2 * font.font_size
                /\ font.leading = 2 * font.font_size
          /\ \A name \in DOMAIN fonts : fonts[name] \in handles
          /\ \A i \in 1..Len(current_font) : current_font[i] \in handles)
    /\ [][handles \subseteq handles']_vars

\* C7 witness: handles of both sizes exist in a session that has loaded a
\* font, set a font, added a page, measured a text and just drawn one.
C7_Witness ==
    /\ last.op = "draw_text"
    /\ last.exc = None
    /\ \A z \in Sizes : \E font \in handles : font.font_size = z
    /\ DOMAIN loaded_fonts # {}
    /\ DOMAIN fonts # {}
    /\ last_set # <<>>
    /\ new_page_calls > 0

\* C8: the backend's page count is 1 plus the number of new_page calls
\* made, and automatic page breaks stay disabled.
C8_PageCount ==
    /\ pdf.page = 1 + new_page_calls
    /\ pdf.auto_page_break = FALSE

\* C8 witness: after two new_page calls, and text drawn since, the document
\* has three pages.
C8_Witness ==
    /\ new_page_calls = 2
    /\ pdf.page = 3
    /\ last.op = "draw_text"
    /\ last.exc = None

\* a style name that holds both "Bold" and "Italic"
BoldAndItalic(style_name) ==
    /\ contains(style_name, <<"B","o","l","d">>)
    /\ contains(style_name, <<"I","t","a","l","i","c">>)

\* the specs of the last get_fonts call whose handle is stored: the last
\* spec of each name
StoredSpecs ==
    {i \in 1..Len(LastSpecs) :
        \A j \in (i + 1)..Len(LastSpecs) : LastSpecs[j][1] # LastSpecs[i][1]}

\* C9, as claimed: a spec whose style name holds both "Bold" and "Italic"
\* resolves to a handle of style Bold.
C9_BoldItalicResolvesBold ==
    (last.op = "get_fonts" /\ last.exc = None)
        => \A i \in StoredSpecs :
               BoldAndItalic(LastSpecs[i][3])
                   => fonts[LastSpecs[i][1]].font_style = STYLE_BOLD

\* C9, amended: a spec whose style name holds both "Bold" and "Italic"
\* resolves to a handle of style Italic, and no handle get_fonts builds has
\* the style BoldItalic.
C9_BoldItalicResolvesItalic ==
    /\ \A font \in handles : font.font_style # STYLE_BOLD_ITALIC
    /\ (last.op = "get_fonts" /\ last.exc = None)
           => \A i \in StoredSpecs :
                  BoldAndItalic(LastSpecs[i][3])
                      => fonts[LastSpecs[i][1]].font_style = STYLE_ITALIC

\* C9 witness: get_fonts has resolved a spec of style name "Bold Italic",
\* after a spec of style name "Bold".
C9_Witness ==
    /\ last.op = "get_fonts"
    /\ last.exc = None
    /\ LastSpecs = <<Spec_bold, Spec_bolditalic>>

\* C10: a get_fonts call that raises leaves the stored mapping fonts as it
\* was, and a load_font call that raises, on the missing file or in the
\* backend's registration, leaves the registry loaded_fonts as it was.
C10_NoPartialUpdate ==
    [][/\ (last'.op = "get_fonts" /\ last'.exc # None) => fonts' = fonts
       /\ (last'.op = "load_font" /\ last'.exc # None)
              => loaded_fonts' = loaded_fonts]_vars

\* C10 witness: get_fonts has raised on a malformed spec that follows a
\* valid one, in a session that holds a mapping without the valid spec's
\* name and a registry with a font.
C10_Witness ==
    /\ last.op = "get_fonts"
    /\ last.exc = "ValueError"
    /\ Len(last.arg) = 2
    /\ Len(last.arg[1]) = 4
    /\ DOMAIN fonts # {}
    /\ last.arg[1][1] \notin DOMAIN fonts
    /\ DOMAIN loaded_fonts # {}

====
